---- MODULE Spec2Model ----
(***************************************************************************)
(* DirectLiNGAM (src/DirectLiNGAM.py): the ordering loop of DirectLiNGAM() *)
(* with its prior-knowledge filter, find_most_independent_variable() with  *)
(* its sequential map and its multiprocessing pool, the raw effect buffer  *)
(* and the final re-indexing into a lower-triangular matrix.               *)
(*                                                                         *)
(* Sample vectors are kept symbolically: a vector is the variable it       *)
(* belongs to, the number of residualisations applied to it, and whether   *)
(* it is an ordinary vector ("ok"), a finite vector of zero variance       *)
(* ("const") or a vector of NaNs ("nan").  A regression coefficient is the *)
(* term cov(a, b) / var(b) of the two vectors it was computed from, or NaN *)
(* when the division is 0/0.  The kernel statistic T(j) is a real number   *)
(* that depends on the data only; its value for each candidate of a round  *)
(* is drawn once per round from TVals and then read by whoever evaluates.  *)
(***************************************************************************)
EXTENDS Integers, Sequences, FiniteSets, TLC

\* ------------------------------------------------------------------ bounds
MaxN == 3
MaxPriorKnown == 2
MaxProcesses == 2
MaxConst == 1

\* the finite values the kernel statistic takes on a round's data
TVals == {1, 2}

\* float('inf') of find_most_independent_variable: above every finite T
Inf == 999

\* ------------------------------------------------------------------ values
Zero == [kind |-> "zero", a |-> 0, b |-> 0, r |-> 0]
NaN == [kind |-> "nan", a |-> 0, b |-> 0, r |-> 0]

Vec(i, d, t) == [id |-> i, depth |-> d, tag |-> t]

Idx(m) == 0 .. (m - 1)

RECURSIVE Keys(_)
\* X.keys(): the dicts are built by comprehensions over range(n) and over the
\* previous X.keys(), so the iteration order is the ascending one
Keys(S) ==
  IF S = {} THEN <<>>
  ELSE LET m == CHOOSE x \in S : \A y \in S : x <= y
       IN <<m>> \o Keys(S \ {m})

Range(s) == {s[p] : p \in 1 .. Len(s)}

\* ------------------------------------------------------------------ numerics
\* np.cov(x_i, x_j, bias=1)[0][1] / np.var(x_j): NaN when x_j has zero
\* variance (0/0) or when a NaN is among the samples
calc_causal_effect(x_i, x_j) ==
  IF x_i.tag = "nan" \/ x_j.tag # "ok"
  THEN NaN
  ELSE [kind |-> "eff", a |-> x_i.id, b |-> x_j.id, r |-> x_j.depth]

\* x_i - calc_causal_effect(x_i, x_j) * x_j: the kinds of vector that can
\* come out (an ordinary vector regressed on an ordinary one may or may not
\* keep a variance, depending on the data)
calc_residual(x_i, x_j) ==
  IF calc_causal_effect(x_i, x_j) = NaN THEN {"nan"}
  ELSE IF x_i.tag = "const" THEN {"const"}
  ELSE {"ok", "const"}

\* calc_T_kernel_value(X, j) is the sum over the other keys i of
\* MI(X[j], residual(X[i], X[j])).  A NaN in X[j] or in a residual reaches
\* scipy.linalg.lu through the Gram matrices, and lu raises ValueError
\* (check_finite); with no other key nothing is computed.
T_raises(X, j) ==
  /\ DOMAIN X # {j}
  /\ \/ \E i \in DOMAIN X \ {j} : calc_residual(X[i], X[j]) = {"nan"}
     \/ X[j].tag = "nan"

\* the keys j whose T(j) is a sum of kernel values on the mapping X: not
\* the empty sum 0.0 of a single key, and not an evaluation that raises
T_free(X) ==
  {j \in DOMAIN X : DOMAIN X # {j} /\ ~T_raises(X, j)}

\* what an evaluation of calc_T_kernel_value(X, j) gives when T(j) is tv[j]
\* on this data
calc_T_kernel_value(X, j, tv) ==
  IF T_raises(X, j) THEN [st |-> "raised", v |-> 0]
  ELSE [st |-> "ok", v |-> tv[j]]

Pending == [st |-> "pending", v |-> 0]

\* ------------------------------------------------------------------ filter
RECURSIVE ScanPairs(_, _, _, _, _)
\* lines 177-183: for i in X.keys(): for j in X.keys(): ...
ScanPairs(candidate, ks, P, a, b) ==
  IF a > Len(ks) THEN candidate
  ELSE IF b > Len(ks) THEN ScanPairs(candidate, ks, P, a + 1, 1)
  ELSE LET i == ks[a]
           j == ks[b]
           c2 == IF candidate[i]
                 THEN IF P[i][j] = 1 THEN [candidate EXCEPT ![i] = FALSE]
                      ELSE IF P[i][j] = 0 THEN [candidate EXCEPT ![j] = FALSE]
                      ELSE candidate
                 ELSE candidate
       IN ScanPairs(c2, ks, P, a, b + 1)

\* line 184: the mapping restricted to the keys U
Sub(X, U) == [i \in U |-> X[i]]

\* lines 175-187: the keys of the mapping handed to
\* find_most_independent_variable
X_used_prior(S, pm) ==
  IF pm.given
  THEN LET candidate == ScanPairs([i \in S |-> TRUE], Keys(S), pm.m, 1, 1)
       IN {i \in S : candidate[i]}
  ELSE S

\* ------------------------------------------------------------------ argmin
RECURSIVE MinScanLastWins(_, _, _)
\* the scan with <= for <: among equal values the last one wins
MinScanLastWins(T, p, min) ==
  IF p > Len(T) THEN min
  ELSE MinScanLastWins(T, p + 1, IF T[p][1] <= min[1] THEN T[p] ELSE min)

RECURSIVE MinScan(_, _, _)
\* lines 142-145: min = (inf, 0); for t in T: if t[0] < min[0]: min = t
MinScan(T, p, min) ==
  IF p > Len(T) THEN min
  ELSE MinScan(T, p + 1, IF T[p][1] < min[1] THEN T[p] ELSE min)

ArgMin(T) == MinScan(T, 1, <<Inf, 0>>)[2]

\* ------------------------------------------------------------------ loop
\* the loop test off by one: stops with one candidate left
LoopCondOffByOne(X) == Cardinality(DOMAIN X) > 1

\* line 174
LoopCond(X) == Cardinality(DOMAIN X) > 0

\* the comprehension without its filter: the selected key stays
NextKeysKeepAll(X, k) == DOMAIN X

\* line 193: the keys that stay
NextKeys(X, k) == {i \in DOMAIN X : i # k}

\* the write with its two indices swapped: B_buffer[k][i]
WriteEffectsTransposed(Bb, X, k) ==
  [i \in DOMAIN Bb |->
     [c \in DOMAIN Bb[i] |->
        IF i = k /\ c \in DOMAIN X /\ c # k
        THEN calc_causal_effect(X[c], X[k])
        ELSE Bb[i][c]]]

\* lines 189-192
WriteEffects(Bb, X, k) ==
  [i \in DOMAIN Bb |->
     [c \in DOMAIN Bb[i] |->
        IF c = k /\ i \in DOMAIN X /\ i # k
        THEN calc_causal_effect(X[i], X[k])
        ELSE Bb[i][c]]]

\* the re-indexing with the target's indices swapped: B[j][i]
ReorderTransposed(Bb, KK, m) ==
  [i \in Idx(m) |->
     [j \in Idx(m) |->
        IF i < j THEN Bb[KK[j + 1]][KK[i + 1]] ELSE Zero]]

\* lines 196-200
Reorder(Bb, KK, m) ==
  [i \in Idx(m) |->
     [j \in Idx(m) |->
        IF j < i THEN Bb[KK[i + 1]][KK[j + 1]] ELSE Zero]]

ZeroMatrix(m) == [i \in Idx(m) |-> [j \in Idx(m) |-> Zero]]

\* ------------------------------------------------------------------ state
VARIABLES
  n,            \* X.shape[0]
  prior_matrix, \* [given, m]: the argument (given = "is not None")
  processes,    \* the argument
  X,            \* the candidate mapping: key -> current vector
  K,            \* the causal order found so far
  B_buffer,     \* effects indexed by original variable indices
  B,            \* the returned matrix
  pc,           \* "loop", "seq", "pool", "argmin", "selected", "done", "error"
  err,          \* the exception that ended the run ("" if none)
  used,         \* X_used_prior.keys() of the current round, in order
  tv,           \* T(j) on this round's data, for each candidate j
  next_task,    \* pool: position of the next task to hand out
  running,      \* pool: positions being evaluated by a worker
  results,      \* per position: the value returned, or pending
  T,            \* the list zip(values, keys) of find_most_independent_variable
  k             \* the selected index of the current round

vars == <<n, prior_matrix, processes, X, K, B_buffer, B, pc, err, used, tv,
          next_task, running, results, T, k>>

Cells(m) == Idx(m) \X Idx(m)

Init ==
  /\ n \in 1 .. MaxN
  /\ \E given \in BOOLEAN :
       \E S \in {s \in SUBSET Cells(n) : Cardinality(s) <= MaxPriorKnown} :
         \E val \in [S -> {0, 1}] :
           /\ given \/ S = {}
           /\ prior_matrix =
                [given |-> given,
                 m |-> [i \in Idx(n) |-> [j \in Idx(n) |->
                          IF <<i, j>> \in S THEN val[<<i, j>>] ELSE -1]]]
  /\ processes \in {1, MaxProcesses}
  /\ \E C \in {c \in SUBSET Idx(n) : Cardinality(c) <= MaxConst} :
       X = [i \in Idx(n) |-> Vec(i, 0, IF i \in C THEN "const" ELSE "ok")]
  /\ K = <<>>
  /\ B_buffer = ZeroMatrix(n)
  /\ B = ZeroMatrix(n)
  /\ pc = "loop"
  /\ err = ""
  /\ used = <<>>
  /\ tv = <<>>
  /\ next_task = 1
  /\ running = {}
  /\ results = <<>>
  /\ T = <<>>
  /\ k = 0

\* lines 174-187 and 136-141 up to the map: the round starts, the filter
\* runs, and the T values of this round's data are fixed
RoundBegin ==
  /\ pc = "loop"
  /\ LoopCond(X)
  /\ LET U == X_used_prior(DOMAIN X, prior_matrix)
     IN /\ used' = Keys(U)
        /\ \E f \in [T_free(Sub(X, U)) -> TVals] :
             tv' = [j \in U |-> IF j \in DOMAIN f THEN f[j] ELSE 0]
        /\ results' = [p \in 1 .. Cardinality(U) |-> Pending]
  /\ next_task' = 1
  /\ running' = {}
  /\ T' = <<>>
  /\ pc' = IF processes > 1 THEN "pool" ELSE "seq"
  /\ UNCHANGED <<n, prior_matrix, processes, X, K, B_buffer, B, err, k>>

Xu == Sub(X, Range(used))

Zip(res) == [p \in 1 .. Len(used) |-> <<res[p].v, used[p]>>]

\* map(partial_calc_T_kernel_value, X.keys()): the values in key order
SeqResults == [p \in 1 .. Len(used) |-> calc_T_kernel_value(Xu, used[p], tv)]

\* line 141: list(zip(map(f, X.keys()), X.keys()))
SeqMap ==
  /\ pc = "seq"
  /\ LET res == SeqResults
     IN /\ results' = res
        /\ IF \E p \in 1 .. Len(used) : res[p].st = "raised"
           THEN /\ pc' = "error"
                /\ err' = "ValueError"
                /\ T' = T
           ELSE /\ pc' = "argmin"
                /\ err' = err
                /\ T' = Zip(res)
  /\ UNCHANGED <<n, prior_matrix, processes, X, K, B_buffer, B, used, tv,
                 next_task, running, k>>

\* line 139, pool.map: an idle worker takes the next task of the queue
WorkerTake ==
  /\ pc = "pool"
  /\ next_task <= Len(used)
  /\ Cardinality(running) < processes
  /\ running' = running \cup {next_task}
  /\ next_task' = next_task + 1
  /\ UNCHANGED <<n, prior_matrix, processes, X, K, B_buffer, B, pc, err, used,
                 tv, results, T, k>>

\* the values kept in the order the workers finish (imap_unordered)
StoreResultInCompletionOrder(res, p, val) ==
  LET q == CHOOSE x \in DOMAIN res :
             /\ res[x].st = "pending"
             /\ \A y \in DOMAIN res : res[y].st = "pending" => x <= y
  IN [res EXCEPT ![q] = val]

\* where pool.map puts the value of the task at position p
StoreResult(res, p, val) == [res EXCEPT ![p] = val]

\* line 139, pool.map: a worker finishes its task, in any order
WorkerDone ==
  /\ pc = "pool"
  /\ \E p \in running :
       /\ results' = StoreResult(results, p, calc_T_kernel_value(Xu, used[p], tv))
       /\ running' = running \ {p}
  /\ UNCHANGED <<n, prior_matrix, processes, X, K, B_buffer, B, pc, err, used,
                 tv, next_task, T, k>>

\* line 139: pool.map returns (or re-raises a worker's exception) once every
\* task has finished
PoolJoin ==
  /\ pc = "pool"
  /\ next_task > Len(used)
  /\ running = {}
  /\ IF \E p \in 1 .. Len(used) : results[p].st = "raised"
     THEN /\ pc' = "error"
          /\ err' = "ValueError"
          /\ T' = T
     ELSE /\ pc' = "argmin"
          /\ err' = err
          /\ T' = Zip(results)
  /\ UNCHANGED <<n, prior_matrix, processes, X, K, B_buffer, B, used, tv,
                 next_task, running, results, k>>

\* lines 142-146
FindMin ==
  /\ pc = "argmin"
  /\ k' = ArgMin(T)
  /\ pc' = "selected"
  /\ tv' = <<>>
  /\ results' = <<>>
  /\ next_task' = 1
  /\ UNCHANGED <<n, prior_matrix, processes, X, K, B_buffer, B, err, used,
                 running, T>>

\* lines 188-193
RoundBody ==
  /\ pc = "selected"
  /\ K' = Append(K, k)
  /\ IF k \notin DOMAIN X
     THEN \* X[k] in line 192, at the first i != k
          /\ pc' = "error"
          /\ err' = "KeyError"
          /\ UNCHANGED <<X, B_buffer>>
     ELSE /\ B_buffer' = WriteEffects(B_buffer, X, k)
          /\ \E tg \in [NextKeys(X, k) -> {"ok", "const", "nan"}] :
               /\ \A i \in NextKeys(X, k) : tg[i] \in calc_residual(X[i], X[k])
               /\ X' = [i \in NextKeys(X, k) |-> Vec(i, X[i].depth + 1, tg[i])]
          /\ pc' = "loop"
          /\ err' = err
  /\ used' = <<>>
  /\ T' = <<>>
  /\ UNCHANGED <<n, prior_matrix, processes, B, tv, next_task, running,
                 results, k>>

\* lines 195-202
Finish ==
  /\ pc = "loop"
  /\ ~LoopCond(X)
  /\ IF \E i \in Idx(n) : i >= 1 /\ i + 1 > Len(K)
     THEN /\ pc' = "error"
          /\ err' = "IndexError"
          /\ B' = B
     ELSE /\ pc' = "done"
          /\ err' = err
          /\ B' = Reorder(B_buffer, K, n)
  /\ UNCHANGED <<n, prior_matrix, processes, X, K, B_buffer, used, tv,
                 next_task, running, results, T, k>>

Next ==
  \/ RoundBegin
  \/ SeqMap
  \/ WorkerTake
  \/ WorkerDone
  \/ PoolJoin
  \/ FindMin
  \/ RoundBody
  \/ Finish

Spec == Init /\ [][Next]_vars

\* ------------------------------------------------------------------ claims
\* the candidate keys at the start of round r (1-based) of a run whose order
\* is K
Rem(r) == Idx(n) \ {K[q] : q \in 1 .. (r - 1)}

\* C1: whenever DirectLiNGAM returns, the order K has length n and every
\* index 0..n-1 appears in it exactly once.
C1_OrderIsPermutation ==
  pc = "done" => (Len(K) = n /\ Range(K) = Idx(n))

C1_Witness ==
  /\ pc = "done"
  /\ n >= 3
  /\ prior_matrix.given
  /\ K[1] # 0
  /\ Range(K) = Idx(n)

\* C2: whenever DirectLiNGAM returns, B[i][j] is zero for every j >= i,
\* whatever was accumulated in B_buffer.
C2_StrictlyLowerTriangular ==
  pc = "done" => \A i \in Idx(n) : \A j \in Idx(n) : j >= i => B[i][j] = Zero

C2_Witness ==
  /\ pc = "done"
  /\ n >= 3
  /\ \A i \in Idx(n) : \A j \in Idx(n) : j < i => B[i][j] # Zero
  /\ \E i \in Idx(n) : \E j \in Idx(n) : B_buffer[i][j] # Zero /\ i < j

\* C3: with processes > 1 the list handed to the argmin is the one the
\* sequential branch builds from the same candidates: every value sits at
\* the position of its own key, in key order, whatever the order in which the
\* workers took and finished their tasks; and the pool raises exactly when
\* the sequential map would.
C3_ParallelEqualsSequential ==
  processes > 1 =>
    /\ pc = "argmin" =>
         /\ \A p \in 1 .. Len(used) : SeqResults[p].st = "ok"
         /\ T = Zip(SeqResults)
    /\ (pc = "error" /\ err = "ValueError") =>
         \E p \in 1 .. Len(used) : SeqResults[p].st = "raised"

C3_Witness ==
  /\ pc = "argmin"
  /\ processes > 1
  /\ Len(T) >= 3
  /\ T[1][1] > T[2][1]
  /\ T[3][1] > T[2][1]

\* C4: if the prior matrix makes variable i ineligible in every round in
\* which another variable is still a candidate, i is the last element of the
\* returned order.
C4_PriorEnforcement ==
  (pc = "done" /\ prior_matrix.given) =>
    \A i \in Idx(n) :
      (\A r \in 1 .. (n - 1) :
         i \in Rem(r) => i \notin X_used_prior(Rem(r), prior_matrix))
      => K[n] = i

\* C5: a round in which the prior filter leaves no eligible candidate aborts
\* the run: no variable is selected in it, no variable outside the candidate
\* set is indexed, and no result is returned.
C5_EmptyFilterAborts ==
  /\ ~(pc = "selected" /\ used = <<>>)
  /\ ~(pc = "error" /\ err = "KeyError")
  /\ pc = "done" =>
       \A r \in 1 .. n : X_used_prior(Rem(r), prior_matrix) # {}

\* C6: a division by a zero variance in calc_causal_effect is surfaced as an
\* error: no result is returned after a NaN coefficient was recorded.
C6_DegenerateValueSurfaced ==
  pc = "done" =>
    \A i \in Idx(n) : \A j \in Idx(n) : B_buffer[i][j] # NaN

\* C7: in every round the eligible keys are exactly the remaining c with no
\* remaining j such that P[c][j] = 1 and no remaining i such that
\* P[i][c] = 0.
C7_FilterExact ==
  (pc \in {"seq", "pool"} /\ prior_matrix.given) =>
    Range(used) =
      {c \in DOMAIN X :
         /\ ~\E j \in DOMAIN X : prior_matrix.m[c][j] = 1
         /\ ~\E i \in DOMAIN X : prior_matrix.m[i][c] = 0}

\* C8: on a non-empty candidate mapping find_most_independent_variable
\* returns a key whose T is minimal, and among the keys of minimal T the
\* first in iteration order.
C8_ArgMinFirstMinimal ==
  (pc = "selected" /\ T # <<>>) =>
    \E p \in 1 .. Len(T) :
      /\ T[p][2] = k
      /\ k \in Range(used)
      /\ \A q \in 1 .. Len(T) : T[p][1] <= T[q][1]
      /\ \A q \in 1 .. (p - 1) : T[q][1] > T[p][1]

C8_Witness ==
  /\ pc = "selected"
  /\ Len(T) >= 3
  /\ T[1][1] > T[2][1]
  /\ T[3][1] = T[2][1]
  /\ k = T[2][2]

\* C9: at every round boundary len(K) + len(X) = n; a completed round
\* removes exactly the selected key from X and appends exactly that key to
\* K; a key that has left X never is a key of X again.
C9_RoundStep ==
  /\ (pc = "selected" /\ pc' = "loop") =>
       /\ k \in DOMAIN X
       /\ DOMAIN X' = DOMAIN X \ {k}
       /\ K' = Append(K, k)
  /\ pc' # "error" =>
       /\ DOMAIN X' \subseteq DOMAIN X
       /\ Len(K') + Cardinality(DOMAIN X') = n'
       /\ Range(K') \cap DOMAIN X' = {}

C9_Boundary ==
  pc # "error" =>
    /\ Len(K) + Cardinality(DOMAIN X) = n
    /\ Range(K) \cap DOMAIN X = {}

C9_CandidateSetShrinks == []C9_Boundary /\ [][C9_RoundStep]_vars

C9_Witness ==
  /\ pc = "loop"
  /\ n >= 3
  /\ Len(K) = 2
  /\ K[1] > K[2]
  /\ Cardinality(DOMAIN X) = n - 2

\* C10: an entry B_buffer[i][c] is written only in the round that selects c,
\* only for i still a candidate, and only while it still holds its initial
\* zero; and the returned coefficients[row][col], col < row, is the
\* coefficient of round col between the vectors of K[row] and K[col] (NaN
\* if that division was 0/0).
C10_WriteStep ==
  \A i \in Idx(n) : \A c \in Idx(n) :
    B_buffer'[i][c] # B_buffer[i][c] =>
      /\ pc = "selected"
      /\ c = k
      /\ i \in DOMAIN X \ {k}
      /\ k \notin Range(K)
      /\ B_buffer[i][c] = Zero

C10_Returned ==
  pc = "done" =>
    \A row \in Idx(n) : \A col \in Idx(n) :
      col < row =>
        B[row][col] \in
          {NaN, [kind |-> "eff", a |-> K[row + 1], b |-> K[col + 1], r |-> col]}

C10_EffectsWrittenOnce == [][C10_WriteStep]_vars /\ []C10_Returned

C10_Witness ==
  /\ pc = "done"
  /\ n >= 3
  /\ K[1] # 0
  /\ B[2][0] = [kind |-> "eff", a |-> K[3], b |-> K[1], r |-> 0]
  /\ B[2][1] = [kind |-> "eff", a |-> K[3], b |-> K[2], r |-> 1]

====
